---- MODULE Spec2Model ----
\* Model of goodroutine's IntervalRoutine (src/intervalroutine.go): one
\* scheduler object, its callers (Start / Stop / TriggerRun from any goroutine)
\* and the background goroutine that Start spawns.  Durations are integers (one
\* unit stands for one tick of time.Duration); the unit of work f is an
\* environment step that ends with one of three outcomes.
EXTENDS Integers, FiniteSets, Sequences, TLC

\* ---------------------------------------------------------------- bounds
MaxInterval == 4
MaxCalls == 3
MaxTriggers == 2
MaxStarts == 2
MaxLoops == 2
MaxThreshold == 2
MaxObs == 3
MaxResets == 1

\* capacity of the force channel: make(chan bool, 1)
ForceCap == 1

Loops == 1..MaxLoops

\* f returns nil, returns an error, or panics
Outcomes == {"ok", "err", "panic"}

VARIABLES
    runInterval,          \* rrt.runInterval
    retryInterval,        \* rrt.retryInterval (as stored by the constructor)
    cfgRetry,             \* the retryInterval argument given to the constructor
    NoRecover,            \* rrt.NoRecover
    RetryBackoffDisabled, \* rrt.RetryBackoffDisabled
    currentInterval,      \* rrt.currentInterval
    force,                \* number of values buffered in rrt.force
    done,                 \* rrt.done is closed
    start,                \* rrt.start (sync.Once) has run
    stop,                 \* rrt.stop (sync.Once) has run
    pc,                   \* position of each background goroutine
    starts,               \* history: number of Start calls
    calls,                \* history: number of invocations of f begun
    triggers,             \* history: number of TriggerRun calls
    lastOutcome,          \* history: outcome of the last finished invocation
    streak,               \* history: consecutive "err" outcomes up to now
    burst,                \* history: TriggerRun calls during the invocation in flight
    stopAfterTrig,        \* history: Stop called in flight after a TriggerRun in flight
    epOpen,               \* history: an invocation with burst >= 1 ended, no TriggerRun since
    follow,               \* history: invocations begun since epOpen was set
    allIdle,              \* history: every TriggerRun so far: the loop waited, startup run over
    noCoalesce            \* history: ... and while the force slot was empty

cfgVars == <<runInterval, retryInterval, cfgRetry, NoRecover, RetryBackoffDisabled>>
coreVars == <<currentInterval, force, done, start, stop, pc>>
histVars == <<starts, calls, triggers, lastOutcome, streak, burst, stopAfterTrig,
              epOpen, follow, allIdle, noCoalesce>>
schedVars == <<cfgVars, coreVars, histVars>>

\* The HealthChecker (src/unnamed/part_001, second file): its fields, the two
\* goroutines that use it (one makes the observations, one calls Reset and
\* LastErr) and what they have seen.
VARIABLES
    state,          \* hrt.state (0 down, 1 up), read and written atomically
    ups,            \* hrt.ups
    downs,          \* hrt.downs
    thresholdUp,    \* hrt.thresholdUp
    thresholdDown,  \* hrt.thresholdDown
    lastErr,        \* hrt.lastErr
    firstRun,       \* hrt.firstRun
    FastStart,      \* hrt.FastStart
    mu,             \* hrt.mu: "free" or the goroutine that holds the write lock
    cbMode,         \* OnUp and OnDown: "none" (nil), "plain", or "reads" (they call LastErr)
    cfgUp,          \* the thresholdUp argument given to the constructor
    cfgDown,        \* the thresholdDown argument given to the constructor
    obsPc,          \* position of the observing goroutine in IntervalRun
    apiPc,          \* position of the other goroutine in Reset
    err,            \* IntervalRun's local err
    pendObs,        \* the callback IntervalRun has deferred
    pendApi,        \* the callback Reset has deferred
    obsLimit,       \* history: the number of observations this run is cut at
    nObs,           \* history: calls of the wrapped runner
    obsDone,        \* history: observations that have returned
    nResets,        \* history: Reset calls after construction
    hist,           \* history: outcomes observed since construction or the last Reset
    lastObs,        \* history: what the last observation met (state before, fast-start)
    lastCb,         \* history: the last callback invoked, with its arguments
    cbsObs,         \* history: OnUp / OnDown calls made by the last observation
    cbsReset,       \* history: OnUp / OnDown calls made by the last Reset
    resetTo,        \* history: the argument of the last Reset
    ran,            \* history: what the wrapped runner returned last
    ret,            \* history: what the last observation returned
    rd,             \* history: what the last LastErr call returned, and what was due
    sinceDown,      \* history: the errors of the failing observations counted from
                    \* the one whose transition produced the present down state
    sinceSeen,      \* history: the same, from the one whose down state the
                    \* reader's last IsUp returned
    rdAge           \* history: "fresh" or "old" once the reader has called LastErr
                    \* after an IsUp that returned such a down state

hcFields == <<state, ups, downs, thresholdUp, thresholdDown, lastErr, firstRun, FastStart, mu>>
hcCfg == <<cbMode, cfgUp, cfgDown, obsLimit>>
hcProcs == <<obsPc, apiPc, err, pendObs, pendApi>>
hcHist == <<nObs, obsDone, nResets, hist, lastObs, lastCb, cbsObs, cbsReset, resetTo, ran, ret, rd>>
rdrVars == <<sinceDown, sinceSeen, rdAge>>
hcVars == <<hcFields, hcCfg, hcProcs, hcHist, rdrVars>>

vars == <<schedVars, hcVars>>

\* ---------------------------------------------------------------- helpers
Min(a, b) == IF a < b THEN a ELSE b

RECURSIVE Pow2(_)
Pow2(k) == IF k = 0 THEN 1 ELSE 2 * Pow2(k - 1)

\* some background goroutine is inside f
InFlight == \E g \in Loops : pc[g] = "inF"

\* a background goroutine waits in runSafe's select
Waiting == \E g \in Loops : pc[g] = "select"

\* an unrecovered panic ends the whole process
Alive == \A g \in Loops : pc[g] # "crashed"

\* ---------------------------------------------------------------- construction
\* The constructor of the backoff variant: a retry interval larger than the
\* run interval disables retry.
NormRetry(run, retry) == IF retry > run THEN 0 ELSE retry

NewIntervalRoutine(run, retry) ==
    /\ runInterval = run
    /\ cfgRetry = retry
    /\ retryInterval = NormRetry(run, retry)
    /\ currentInterval = 0
    /\ force = 0
    /\ done = FALSE
    /\ start = FALSE
    /\ stop = FALSE
    /\ pc = [g \in Loops |-> "none"]

\* the history variables of the scheduler before any call
SchedHistInit ==
    /\ starts = 0
    /\ calls = 0
    /\ triggers = 0
    /\ lastOutcome = "none"
    /\ streak = 0
    /\ burst = 0
    /\ stopAfterTrig = FALSE
    /\ epOpen = FALSE
    /\ follow = 0
    /\ allIdle = TRUE
    /\ noCoalesce = TRUE

\* what the wrapped runner returns: nil or one of two errors
HOutcomes == {"nil", "e1", "e2"}

\* no callback deferred / invoked
NoCb == [by |-> "none", kind |-> "none", ups |-> 0, downs |-> 0, err |-> "nil", fast |-> FALSE]

\* no callback counted
NoCbs == [up |-> 0, down |-> 0]

\* no observation made since construction or the last Reset
NoObs == [valid |-> FALSE, wasUp |-> FALSE, ok |-> FALSE, fast |-> FALSE]

\* the thresholds stored as given
ClampNone(t) == t

\* if threshold < 1 { threshold = 1 }
Clamp(t) == IF t < 1 THEN 1 ELSE t

\* NewHealthChecker: clamps the thresholds and calls Reset(defaultState) with
\* no callback set yet; FastStart is true unless the caller clears the field.
NewHealthChecker(defaultState, up, down) ==
    /\ cfgUp = up
    /\ cfgDown = down
    /\ thresholdUp = Clamp(up)
    /\ thresholdDown = Clamp(down)
    /\ state = IF defaultState THEN 1 ELSE 0
    /\ ups = 0
    /\ downs = 0
    /\ firstRun = TRUE
    /\ lastErr = "nil"
    /\ mu = "free"

\* both goroutines outside the health checker, nothing observed yet
HcStart(limit) ==
    /\ obsLimit = limit
    /\ obsPc = "idle"
    /\ apiPc = "idle"
    /\ err = "nil"
    /\ pendObs = NoCb
    /\ pendApi = NoCb
    /\ nObs = 0
    /\ obsDone = 0
    /\ nResets = 0
    /\ hist = <<>>
    /\ lastObs = NoObs
    /\ lastCb = NoCb
    /\ cbsObs = NoCbs
    /\ cbsReset = NoCbs
    /\ resetTo = "none"
    /\ ran = "none"
    /\ ret = "none"
    /\ rd = [got |-> "none", due |-> "none"]
    /\ sinceDown = {}
    /\ sinceSeen = {}
    /\ rdAge = "none"

Init ==
    /\ \E run \in 0..MaxInterval, retry \in 0..MaxInterval : NewIntervalRoutine(run, retry)
    /\ NoRecover \in BOOLEAN
    /\ RetryBackoffDisabled \in BOOLEAN
    /\ SchedHistInit
    /\ NewHealthChecker(TRUE, 1, 1)
    /\ FastStart = TRUE
    /\ cbMode = "none"
    /\ HcStart(0)

\* ---------------------------------------------------------------- callers
\* TriggerRun: select { case rrt.force <- true: default: }
TriggerRun ==
    /\ Alive
    /\ triggers < MaxTriggers
    /\ force' = IF force < ForceCap THEN force + 1 ELSE force
    /\ triggers' = triggers + 1
    /\ burst' = IF InFlight THEN burst + 1 ELSE burst
    /\ epOpen' = FALSE
    /\ allIdle' = (allIdle /\ Waiting /\ calls >= 1)
    /\ noCoalesce' = (noCoalesce /\ Waiting /\ force = 0)
    /\ UNCHANGED <<hcVars, cfgVars, currentInterval, done, start, stop, pc>>
    /\ UNCHANGED <<starts, calls, lastOutcome, streak, stopAfterTrig, follow>>

\* Start without the sync.Once: every call spawns a goroutine
StartNoOnce ==
    /\ Alive
    /\ starts < MaxStarts
    /\ starts' = starts + 1
    /\ start' = TRUE
    /\ \E g \in Loops :
         /\ pc[g] = "none"
         /\ \A h \in Loops : h < g => pc[h] # "none"
         /\ pc' = [pc EXCEPT ![g] = "send"]
    /\ UNCHANGED <<hcVars, cfgVars, currentInterval, force, done, stop>>
    /\ UNCHANGED <<calls, triggers, lastOutcome, streak, burst, stopAfterTrig,
                   epOpen, follow, allIdle, noCoalesce>>

\* Start: rrt.start.Do(func() { go func() { ... }() })
Start ==
    /\ Alive
    /\ starts < MaxStarts
    /\ starts' = starts + 1
    /\ IF ~start
       THEN /\ start' = TRUE
            /\ \E g \in Loops :
                 /\ pc[g] = "none"
                 /\ \A h \in Loops : h < g => pc[h] # "none"
                 /\ pc' = [pc EXCEPT ![g] = "send"]
       ELSE UNCHANGED <<start, pc>>
    /\ UNCHANGED <<hcVars, cfgVars, currentInterval, force, done, stop>>
    /\ UNCHANGED <<calls, triggers, lastOutcome, streak, burst, stopAfterTrig,
                   epOpen, follow, allIdle, noCoalesce>>

\* Stop: rrt.stop.Do(func() { close(rrt.done) })
Stop ==
    /\ Alive
    /\ ~stop
    /\ stop' = TRUE
    /\ done' = TRUE
    /\ stopAfterTrig' = (InFlight /\ burst >= 1)
    /\ UNCHANGED <<hcVars, cfgVars, currentInterval, force, start, pc>>
    /\ UNCHANGED <<starts, calls, triggers, lastOutcome, streak, burst,
                   epOpen, follow, allIdle, noCoalesce>>

\* ---------------------------------------------------------------- the loop
\* rrt.force <- true at the head of the goroutine: a blocking send
LoopSend(g) ==
    /\ Alive
    /\ pc[g] = "send"
    /\ force < ForceCap
    /\ force' = force + 1
    /\ pc' = [pc EXCEPT ![g] = "select"]
    /\ UNCHANGED <<hcVars, cfgVars, currentInterval, done, start, stop, histVars>>

\* a timer armed whatever the interval: time.NewTimer(0) fires at once
TimerArmedAlways == currentInterval >= 0

\* runSafe arms a timer only when currentInterval > 0
TimerArmed == currentInterval > 0

\* select: case <-timerC
SelectTimer(g) ==
    /\ Alive
    /\ pc[g] = "select"
    /\ TimerArmed
    /\ pc' = [pc EXCEPT ![g] = "chkTimer"]
    /\ UNCHANGED <<hcVars, cfgVars, currentInterval, force, done, start, stop, histVars>>

\* select: case <-rrt.force
SelectForce(g) ==
    /\ Alive
    /\ pc[g] = "select"
    /\ force > 0
    /\ force' = force - 1
    /\ pc' = [pc EXCEPT ![g] = "chkForce"]
    /\ UNCHANGED <<hcVars, cfgVars, currentInterval, done, start, stop, histVars>>

\* select: case <-rrt.done: return false
SelectDone(g) ==
    /\ Alive
    /\ pc[g] = "select"
    /\ done
    /\ pc' = [pc EXCEPT ![g] = "exited"]
    /\ UNCHANGED <<hcVars, cfgVars, currentInterval, force, done, start, stop, histVars>>

\* runSafe returned false: the goroutine leaves its for loop
Exit(g) ==
    /\ pc' = [pc EXCEPT ![g] = "exited"]
    /\ UNCHANGED <<hcVars, cfgVars, currentInterval, force, done, start, stop, histVars>>

\* err = rrt.f() is entered
Begin(g) ==
    /\ calls < MaxCalls
    /\ pc' = [pc EXCEPT ![g] = "inF"]
    /\ calls' = calls + 1
    /\ burst' = 0
    /\ stopAfterTrig' = FALSE
    /\ follow' = IF epOpen THEN follow + 1 ELSE follow
    /\ UNCHANGED <<hcVars, cfgVars, currentInterval, force, done, start, stop>>
    /\ UNCHANGED <<starts, triggers, lastOutcome, streak, epOpen, allIdle, noCoalesce>>

\* the timer case without the second look at rrt.done
TimerNoRecheck(g) ==
    /\ Alive
    /\ pc[g] = "chkTimer"
    /\ Begin(g)

\* the force case without the second look at rrt.done
ForceNoRecheck(g) ==
    /\ Alive
    /\ pc[g] = "chkForce"
    /\ Begin(g)

\* the timer case: select { case <-rrt.done: return false; default: }; err = rrt.f()
\* The poll of rrt.done and the call that follows it are one step: the call
\* itself touches nothing shared, and what f does comes after, while pc = "inF".
TimerRecheck(g) ==
    /\ Alive
    /\ pc[g] = "chkTimer"
    /\ IF done THEN Exit(g) ELSE Begin(g)

\* the force case: select { case <-rrt.done: return false; default: }; err = rrt.f()
ForceRecheck(g) ==
    /\ Alive
    /\ pc[g] = "chkForce"
    /\ IF done THEN Exit(g) ELSE Begin(g)

\* The retry wait of the backoff variant: the base retry interval, or twice
\* the last wait when that was already a retry wait (strictly between zero and
\* the run interval), kept strictly below the run interval.
RetryWait(cur) ==
    IF ~RetryBackoffDisabled /\ cur > 0 /\ cur < runInterval
    THEN Min(2 * cur, runInterval - 1)
    ELSE retryInterval

\* the outcome ignored: always the run interval
NextIntervalNoRetry(failed, cur) == runInterval

\* a success that keeps the wait in use
NextIntervalSticky(failed, cur) ==
    IF failed /\ retryInterval > 0 THEN RetryWait(cur)
    ELSE IF cur > 0 THEN cur ELSE runInterval

\* the retryInterval > 0 test dropped
NextIntervalNoGuard(failed, cur) ==
    IF failed THEN RetryWait(cur) ELSE runInterval

\* if err != nil && rrt.retryInterval > 0 { retry } else { rrt.runInterval }
NextInterval(failed, cur) ==
    IF failed /\ retryInterval > 0 THEN RetryWait(cur) ELSE runInterval

\* What the goroutine does once f has ended with outcome o.  A panic skips
\* the rest of runSafe; when the deferred function recovers it, runSafe returns
\* its result's zero value, false, and the for loop in Start breaks.
AfterF(o) ==
    CASE o = "ok" -> "select"
      [] o = "err" -> "select"
      [] o = "panic" -> IF NoRecover THEN "crashed" ELSE "exited"

\* f ends with outcome o
Return(g, o) ==
    /\ Alive
    /\ pc[g] = "inF"
    /\ pc' = [pc EXCEPT ![g] = AfterF(o)]
    /\ currentInterval' = IF o = "panic" THEN currentInterval
                          ELSE NextInterval(o = "err", currentInterval)
    /\ lastOutcome' = o
    /\ streak' = IF o = "err" THEN streak + 1 ELSE 0
    /\ epOpen' = IF burst >= 1 THEN TRUE ELSE epOpen
    /\ follow' = IF burst >= 1 THEN 0 ELSE follow
    /\ UNCHANGED <<hcVars, cfgVars, force, done, start, stop>>
    /\ UNCHANGED <<starts, calls, triggers, burst, stopAfterTrig, allIdle, noCoalesce>>

LoopStep(g) ==
    \/ LoopSend(g)
    \/ SelectTimer(g)
    \/ SelectForce(g)
    \/ SelectDone(g)
    \/ TimerRecheck(g)
    \/ ForceRecheck(g)
    \/ \E o \in Outcomes : Return(g, o)

Next ==
    \/ TriggerRun
    \/ Start
    \/ Stop
    \/ \E g \in Loops : LoopSend(g)
    \/ \E g \in Loops : SelectTimer(g)
    \/ \E g \in Loops : SelectForce(g)
    \/ \E g \in Loops : SelectDone(g)
    \/ \E g \in Loops : TimerRecheck(g)
    \/ \E g \in Loops : ForceRecheck(g)
    \/ \E g \in Loops, o \in Outcomes : Return(g, o)

Spec == Init /\ [][Next]_vars

\* The Go scheduler runs a runnable goroutine eventually, and f ends.
FairSpec == Spec /\ \A g \in Loops : WF_vars(LoopStep(g))

\* ---------------------------------------------------------------- the health checker
\* IsUp: atomic.LoadInt32(&hrt.state) == 1
IsUp == state = 1

\* one more OnUp / OnDown call counted
Counted(n, kind) ==
    IF kind = "up" THEN [n EXCEPT !.up = n.up + 1] ELSE [n EXCEPT !.down = n.down + 1]

\* the error of the latest failing observation in h, "nil" when there is none
RECURSIVE RecentFail(_)
RecentFail(h) ==
    IF h = <<>> THEN "nil"
    ELSE IF h[Len(h)] # "nil" THEN h[Len(h)]
    ELSE RecentFail(SubSeq(h, 1, Len(h) - 1))

\* one success more than the threshold asked for
GoesUpLate(fast, u) == fast \/ u > thresholdUp

\* faststart || hrt.ups >= hrt.thresholdUp
GoesUp(fast, u) == fast \/ u >= thresholdUp

\* one failure more than the threshold asked for
GoesDownLate(fast, d) == fast \/ d > thresholdDown

\* faststart || hrt.downs >= hrt.thresholdDown
GoesDown(fast, d) == fast \/ d >= thresholdDown

\* a callback body can run: a "reads" callback calls LastErr, whose RLock
\* waits while any goroutine (its own included) holds the write lock
CallbackCanRun == cbMode = "plain" \/ (cbMode = "reads" /\ mu = "free")

\* err := hrt.runner.IntervalRun()
ObsRun(o) ==
    /\ obsPc = "idle"
    /\ nObs < obsLimit
    /\ err' = o
    /\ ran' = o
    /\ nObs' = nObs + 1
    /\ obsPc' = "ran"
    /\ UNCHANGED <<schedVars, hcFields, hcCfg, apiPc, pendObs, pendApi>>
    /\ UNCHANGED <<obsDone, nResets, hist, lastObs, lastCb, cbsObs, cbsReset, resetTo, ret, rd, rdrVars>>

\* the fast-start flag ignored
FastStartNever == FALSE

\* faststart := hrt.FastStart && hrt.firstRun
FastStartApplies == FastStart /\ firstRun

\* the counting without the clearing of the other counter
ObsLockKeepsCounters ==
    /\ obsPc = "ran"
    /\ mu = "free"
    /\ LET fast == FastStartApplies
           wasUp == IsUp
           failed == err # "nil"
           d == downs + 1
           u == ups + 1
           trans == IF failed THEN wasUp /\ GoesDown(fast, d)
                    ELSE ~wasUp /\ GoesUp(fast, u)
       IN /\ mu' = "obs"
          /\ state' = IF trans THEN (IF failed THEN 0 ELSE 1) ELSE state
          /\ ups' = IF failed THEN ups ELSE u
          /\ downs' = IF failed THEN d ELSE downs
          /\ pendObs' = IF trans /\ cbMode # "none"
                        THEN [by |-> "obs",
                              kind |-> IF failed THEN "down" ELSE "up",
                              ups |-> IF failed THEN ups ELSE u,
                              downs |-> IF failed THEN d ELSE downs,
                              err |-> err,
                              fast |-> fast]
                        ELSE NoCb
          /\ lastObs' = [valid |-> TRUE, wasUp |-> wasUp, ok |-> ~failed, fast |-> fast]
          /\ sinceDown' = IF trans THEN (IF failed THEN {err} ELSE {})
                          ELSE IF failed /\ sinceDown # {} THEN sinceDown \cup {err}
                          ELSE sinceDown
          /\ sinceSeen' = IF failed /\ sinceSeen # {} THEN sinceSeen \cup {err}
                          ELSE sinceSeen
    /\ hist' = Append(hist, err)
    /\ cbsObs' = NoCbs
    /\ obsPc' = "locked"
    /\ UNCHANGED <<schedVars, thresholdUp, thresholdDown, lastErr, firstRun, FastStart>>
    /\ UNCHANGED <<hcCfg, apiPc, err, pendApi>>
    /\ UNCHANGED <<nObs, obsDone, nResets, lastCb, cbsReset, resetTo, ran, ret, rd, rdAge>>

\* the counting with OnDown deferred at every failure while up, transition or not
ObsLockDefersEarly ==
    /\ obsPc = "ran"
    /\ mu = "free"
    /\ LET fast == FastStartApplies
           wasUp == IsUp
           failed == err # "nil"
           d == downs + 1
           u == ups + 1
           trans == IF failed THEN wasUp /\ GoesDown(fast, d)
                    ELSE ~wasUp /\ GoesUp(fast, u)
       IN /\ mu' = "obs"
          /\ state' = IF trans THEN (IF failed THEN 0 ELSE 1) ELSE state
          /\ ups' = IF failed THEN (IF ~wasUp \/ trans THEN 0 ELSE ups) ELSE u
          /\ downs' = IF failed THEN d ELSE (IF wasUp \/ trans THEN 0 ELSE downs)
          /\ pendObs' = IF (trans \/ (failed /\ wasUp)) /\ cbMode # "none"
                        THEN [by |-> "obs",
                              kind |-> IF failed THEN "down" ELSE "up",
                              ups |-> IF failed THEN ups ELSE u,
                              downs |-> IF failed THEN d ELSE downs,
                              err |-> err,
                              fast |-> fast]
                        ELSE NoCb
          /\ lastObs' = [valid |-> TRUE, wasUp |-> wasUp, ok |-> ~failed, fast |-> fast]
          /\ sinceDown' = IF trans THEN (IF failed THEN {err} ELSE {})
                          ELSE IF failed /\ sinceDown # {} THEN sinceDown \cup {err}
                          ELSE sinceDown
          /\ sinceSeen' = IF failed /\ sinceSeen # {} THEN sinceSeen \cup {err}
                          ELSE sinceSeen
    /\ hist' = Append(hist, err)
    /\ cbsObs' = NoCbs
    /\ obsPc' = "locked"
    /\ UNCHANGED <<schedVars, thresholdUp, thresholdDown, lastErr, firstRun, FastStart>>
    /\ UNCHANGED <<hcCfg, apiPc, err, pendApi>>
    /\ UNCHANGED <<nObs, obsDone, nResets, lastCb, cbsReset, resetTo, ran, ret, rd, rdAge>>

\* hrt.mu.Lock() and the counting, up to the store of the new state
ObsLock ==
    /\ obsPc = "ran"
    /\ mu = "free"
    /\ LET fast == FastStartApplies
           wasUp == IsUp
           failed == err # "nil"
           d == downs + 1
           u == ups + 1
           trans == IF failed THEN wasUp /\ GoesDown(fast, d)
                    ELSE ~wasUp /\ GoesUp(fast, u)
       IN /\ mu' = "obs"
          /\ state' = IF trans THEN (IF failed THEN 0 ELSE 1) ELSE state
          /\ ups' = IF failed THEN (IF ~wasUp \/ trans THEN 0 ELSE ups) ELSE u
          /\ downs' = IF failed THEN d ELSE (IF wasUp \/ trans THEN 0 ELSE downs)
          /\ pendObs' = IF trans /\ cbMode # "none"
                        THEN [by |-> "obs",
                              kind |-> IF failed THEN "down" ELSE "up",
                              ups |-> IF failed THEN ups ELSE u,
                              downs |-> IF failed THEN d ELSE downs,
                              err |-> err,
                              fast |-> fast]
                        ELSE NoCb
          /\ lastObs' = [valid |-> TRUE, wasUp |-> wasUp, ok |-> ~failed, fast |-> fast]
          /\ sinceDown' = IF trans THEN (IF failed THEN {err} ELSE {})
                          ELSE IF failed /\ sinceDown # {} THEN sinceDown \cup {err}
                          ELSE sinceDown
          /\ sinceSeen' = IF failed /\ sinceSeen # {} THEN sinceSeen \cup {err}
                          ELSE sinceSeen
    /\ hist' = Append(hist, err)
    /\ cbsObs' = NoCbs
    /\ obsPc' = "locked"
    /\ UNCHANGED <<schedVars, thresholdUp, thresholdDown, lastErr, firstRun, FastStart>>
    /\ UNCHANGED <<hcCfg, apiPc, err, pendApi>>
    /\ UNCHANGED <<nObs, obsDone, nResets, lastCb, cbsReset, resetTo, ran, ret, rd, rdAge>>

\* the last error returned in place of err
ObsReturnLastErr == lastErr

\* return err
ObsReturn == err

\* hrt.lastErr = err (on failure), hrt.firstRun = false, hrt.mu.Unlock();
\* with no callback deferred IntervalRun returns here
ObsUnlock ==
    /\ obsPc = "locked"
    /\ lastErr' = IF err # "nil" THEN err ELSE lastErr
    /\ firstRun' = FALSE
    /\ mu' = "free"
    /\ IF pendObs.kind = "none"
       THEN /\ obsPc' = "idle"
            /\ ret' = ObsReturn
            /\ obsDone' = obsDone + 1
       ELSE /\ obsPc' = "cb"
            /\ UNCHANGED <<ret, obsDone>>
    /\ UNCHANGED <<schedVars, state, ups, downs, thresholdUp, thresholdDown, FastStart>>
    /\ UNCHANGED <<hcCfg, apiPc, err, pendObs, pendApi>>
    /\ UNCHANGED <<nObs, nResets, hist, lastObs, lastCb, cbsObs, cbsReset, resetTo, ran, rd, rdrVars>>

\* the deferred OnUp / OnDown runs, then IntervalRun returns
ObsCallback ==
    /\ obsPc = "cb"
    /\ CallbackCanRun
    /\ lastCb' = pendObs
    /\ cbsObs' = Counted(cbsObs, pendObs.kind)
    /\ pendObs' = NoCb
    /\ obsPc' = "idle"
    /\ ret' = ObsReturn
    /\ obsDone' = obsDone + 1
    /\ UNCHANGED <<schedVars, hcFields, hcCfg, apiPc, err, pendApi>>
    /\ UNCHANGED <<nObs, nResets, hist, lastObs, cbsReset, resetTo, ran, rd, rdrVars>>

\* Reset that leaves the first-run flag as it finds it
ResetNoRearm(newState) ==
    /\ apiPc = "idle"
    /\ nResets < MaxResets
    /\ mu = "free"
    /\ mu' = "api"
    /\ pendApi' = IF cbMode = "none" THEN NoCb
                  ELSE [by |-> "reset",
                        kind |-> IF newState THEN "up" ELSE "down",
                        ups |-> ups,
                        downs |-> downs,
                        err |-> IF newState THEN "nil" ELSE lastErr,
                        fast |-> FALSE]
    /\ state' = IF newState THEN 1 ELSE 0
    /\ ups' = 0
    /\ downs' = 0
    /\ firstRun' = firstRun
    /\ apiPc' = "defers"
    /\ nResets' = nResets + 1
    /\ hist' = <<>>
    /\ lastObs' = NoObs
    /\ cbsReset' = NoCbs
    /\ resetTo' = newState
    /\ UNCHANGED <<schedVars, thresholdUp, thresholdDown, lastErr, FastStart>>
    /\ UNCHANGED <<hcCfg, obsPc, err, pendObs>>
    /\ sinceDown' = {}
    /\ UNCHANGED <<nObs, obsDone, lastCb, cbsObs, ran, ret, rd, sinceSeen, rdAge>>

\* Reset's body: hrt.mu.Lock(), defer hrt.mu.Unlock(), the callback deferred
\* with the arguments as they are now, the state stored, the counters cleared
ResetLock(newState) ==
    /\ apiPc = "idle"
    /\ nResets < MaxResets
    /\ mu = "free"
    /\ mu' = "api"
    /\ pendApi' = IF cbMode = "none" THEN NoCb
                  ELSE [by |-> "reset",
                        kind |-> IF newState THEN "up" ELSE "down",
                        ups |-> ups,
                        downs |-> downs,
                        err |-> IF newState THEN "nil" ELSE lastErr,
                        fast |-> FALSE]
    /\ state' = IF newState THEN 1 ELSE 0
    /\ ups' = 0
    /\ downs' = 0
    /\ firstRun' = TRUE
    /\ apiPc' = "defers"
    /\ nResets' = nResets + 1
    /\ hist' = <<>>
    /\ lastObs' = NoObs
    /\ cbsReset' = NoCbs
    /\ resetTo' = newState
    /\ UNCHANGED <<schedVars, thresholdUp, thresholdDown, lastErr, FastStart>>
    /\ UNCHANGED <<hcCfg, obsPc, err, pendObs>>
    /\ sinceDown' = {}
    /\ UNCHANGED <<nObs, obsDone, lastCb, cbsObs, ran, ret, rd, sinceSeen, rdAge>>

\* Reset's deferred calls run last in, first out: the callback first, while
\* the lock is still held
ResetCallback ==
    /\ apiPc = "defers"
    /\ pendApi.kind # "none"
    /\ CallbackCanRun
    /\ lastCb' = pendApi
    /\ cbsReset' = Counted(cbsReset, pendApi.kind)
    /\ pendApi' = NoCb
    /\ UNCHANGED <<schedVars, hcFields, hcCfg, obsPc, apiPc, err, pendObs>>
    /\ UNCHANGED <<nObs, obsDone, nResets, hist, lastObs, cbsObs, resetTo, ran, ret, rd, rdrVars>>

\* then the deferred hrt.mu.Unlock()
ResetUnlock ==
    /\ apiPc = "defers"
    /\ pendApi.kind = "none"
    /\ mu' = "free"
    /\ apiPc' = "idle"
    /\ UNCHANGED <<schedVars, state, ups, downs, thresholdUp, thresholdDown, lastErr, firstRun, FastStart>>
    /\ UNCHANGED <<hcCfg, obsPc, err, pendObs, pendApi, hcHist, rdrVars>>

\* LastErr reading the field without the read lock
LastErrNoLock ==
    /\ apiPc = "idle"
    /\ rd' = [got |-> lastErr, due |-> RecentFail(hist)]
    /\ rdAge' = IF sinceSeen = {} THEN "none"
                 ELSE IF lastErr \in sinceSeen THEN "fresh" ELSE "old"
    /\ UNCHANGED <<schedVars, hcFields, hcCfg, hcProcs, sinceDown, sinceSeen>>
    /\ UNCHANGED <<nObs, obsDone, nResets, hist, lastObs, lastCb, cbsObs, cbsReset, resetTo, ran, ret>>

\* LastErr: hrt.mu.RLock(); return hrt.lastErr
LastErr ==
    /\ apiPc = "idle"
    /\ mu = "free"
    /\ rd' = [got |-> lastErr, due |-> RecentFail(hist)]
    /\ rdAge' = IF sinceSeen = {} THEN "none"
                 ELSE IF lastErr \in sinceSeen THEN "fresh" ELSE "old"
    /\ UNCHANGED <<schedVars, hcFields, hcCfg, hcProcs, sinceDown, sinceSeen>>
    /\ UNCHANGED <<nObs, obsDone, nResets, hist, lastObs, lastCb, cbsObs, cbsReset, resetTo, ran, ret>>

\* the reader calls IsUp, which takes no lock: atomic.LoadInt32(&hrt.state) == 1
ReadIsUp ==
    /\ apiPc = "idle"
    /\ sinceSeen' = IF IsUp THEN {} ELSE sinceDown
    /\ rdAge' = "none"
    /\ UNCHANGED <<schedVars, hcFields, hcCfg, hcProcs, hcHist, sinceDown>>

HNext ==
    \/ \E o \in HOutcomes : ObsRun(o)
    \/ ObsLock
    \/ ObsUnlock
    \/ ObsCallback
    \/ \E newState \in BOOLEAN : ResetLock(newState)
    \/ ResetCallback
    \/ ResetUnlock
    \/ LastErr

\* a scheduler that is constructed and left alone
SchedIdle ==
    /\ NewIntervalRoutine(MaxInterval, 1)
    /\ NoRecover = FALSE
    /\ RetryBackoffDisabled = FALSE
    /\ SchedHistInit

HInit ==
    /\ SchedIdle
    /\ \E defaultState \in BOOLEAN, up \in (-1)..MaxThreshold, down \in (-1)..MaxThreshold :
         NewHealthChecker(defaultState, up, down)
    /\ FastStart \in BOOLEAN
    /\ cbMode \in {"none", "plain", "reads"}
    /\ HcStart(MaxObs)

HSpec == HInit /\ [][HNext]_vars

\* the scenario of a health check with thresholds (up 3, down 5) that starts
\* down with FastStart off: three successes, then five failures, fed one
\* after the other, with LastErr read at any time
ScenInit ==
    /\ SchedIdle
    /\ NewHealthChecker(FALSE, 3, 5)
    /\ FastStart = FALSE
    /\ cbMode \in {"plain", "reads"}
    /\ HcStart(3 + 5)

\* the runner succeeds on the first three calls and fails on the others
ScenRun ==
    \E o \in HOutcomes :
        /\ (o = "nil") = (nObs < 3)
        /\ ObsRun(o)

ScenNext ==
    \/ ScenRun
    \/ ObsLock
    \/ ObsUnlock
    \/ ObsCallback
    \/ LastErr

ScenSpec == ScenInit /\ [][ScenNext]_vars

\* a health check without callbacks, and a reader that calls IsUp, LastErr and
\* Reset while observations are in progress
RInit ==
    /\ SchedIdle
    /\ \E defaultState \in BOOLEAN, up \in 1..MaxThreshold, down \in 1..MaxThreshold :
         NewHealthChecker(defaultState, up, down)
    /\ FastStart \in BOOLEAN
    /\ cbMode = "none"
    /\ HcStart(MaxObs)

RNext ==
    \/ \E o \in HOutcomes : ObsRun(o)
    \/ ObsLock
    \/ ObsUnlock
    \/ \E newState \in BOOLEAN : ResetLock(newState)
    \/ ResetUnlock
    \/ ReadIsUp
    \/ LastErr

RSpec == RInit /\ [][RNext]_vars

\* ---------------------------------------------------------------- claims
\* the goroutines that Start has spawned
Spawned == {g \in Loops : pc[g] # "none"}

\* the loop waits in its select with nothing to receive but a later timer
Quiescent == ~done /\ force = 0 /\ \E g \in Loops : pc[g] = "select"

\* no goroutine will take a step before a caller acts
AtRest == \A g \in Loops :
    \/ pc[g] \in {"none", "exited"}
    \/ (pc[g] = "select" /\ force = 0 /\ ~TimerArmed)

\* C1: after a recovered panic of f (NoRecover false) and with no Stop, the
\* loop has not ended, and the wait it uses next is the one a failure selects:
\* the run interval when no retry interval is set, a retry wait below the run
\* interval otherwise.
C1_RecoveredPanicKeepsLoop ==
    (lastOutcome = "panic" /\ ~NoRecover /\ ~done) =>
        /\ \A g \in Spawned : pc[g] # "exited"
        /\ (retryInterval = 0 => currentInterval = runInterval)
        /\ (retryInterval > 0 => currentInterval <= runInterval /\ currentInterval > 0)

\* C2: once Start has run and while Stop has not, f is eventually invoked.
C2_StartupRunHappens == (start /\ ~done) ~> (calls >= 1 \/ done)

\* C3: once rrt.done is closed, no invocation of f begins (an invocation in
\* flight may still end): no step taken with done closed raises calls.
C3_NoBeginAfterStop == [][done => calls' = calls]_vars

\* C3 witness: a timer or a trigger was received by the select, and Stop
\* closed done before the second look at it.
C3_Witness == done /\ \E g \in Loops : pc[g] \in {"chkTimer", "chkForce"}

\* C4: TriggerRun and then Stop were called during an invocation: from then on
\* no invocation begins, although the trigger sits in the slot.
C4_NoRunAfterTriggerThenStop == [][stopAfterTrig => calls' = calls]_vars

\* C4 witness: that invocation has ended and the loop waits again with the
\* trigger pending and done closed.
C4_Witness == stopAfterTrig /\ force = 1 /\ \E g \in Loops : pc[g] = "select"

\* C5: with run interval zero and no Stop, after an invocation during which
\* N >= 1 TriggerRun calls were made (and none since), at most one trigger is
\* pending, at most one further invocation begins, and when the loop has come
\* to rest exactly one has begun.
C5_BurstYieldsOneRun ==
    (runInterval = 0 /\ ~done /\ epOpen) =>
        /\ force <= 1
        /\ follow <= 1
        /\ (AtRest => follow = 1)

C10_OneLoopNoOverlap ==
    /\ Cardinality(Spawned) <= 1
    /\ Cardinality({g \in Loops : pc[g] = "inF"}) <= 1

\* C10 witness: Start was called twice, TriggerRun and Stop too, and an
\* invocation is in flight.
C10_Witness == starts >= 2 /\ triggers >= 1 /\ done /\ InFlight

\* C11: once Start and Stop have both been called (f always returns), every
\* background goroutine eventually leaves its loop.
C11_LoopExitsAfterStop ==
    (start /\ done) ~> (\A g \in Spawned : pc[g] \in {"exited", "crashed"})

\* C11, for a goroutine that got past its own rrt.force <- true: this one
\* does leave its loop after Stop.
C11_PastSendExits ==
    (start /\ done /\ \A g \in Loops : pc[g] # "send")
        ~> (\A g \in Spawned : pc[g] \in {"exited", "crashed"})

\* ---------------------------------------------------------------- health checker claims
\* the length of the run of like outcomes (all successes or all failures)
\* that ends h
RECURSIVE TrailingRun(_)
TrailingRun(h) ==
    IF h = <<>> THEN 0
    ELSE IF Len(h) = 1 THEN 1
    ELSE IF (h[Len(h)] = "nil") = (h[Len(h) - 1] = "nil")
         THEN 1 + TrailingRun(SubSeq(h, 1, Len(h) - 1))
         ELSE 1

\* the step in which an observation takes the lock and is counted
Observed == obsPc = "ran" /\ obsPc' = "locked"

\* C12: hysteresis. With thresholds U, D >= 1 and fast-start not applying, an
\* observation made while down turns the state up exactly when it is the U-th
\* success in a row (a failure leaves it down), and one made while up turns it
\* down exactly when it is the D-th failure in a row (a success leaves it up).
C12_Hysteresis ==
    [][(Observed /\ cfgUp >= 1 /\ cfgDown >= 1 /\ ~(FastStart /\ firstRun)) =>
        LET k == TrailingRun(hist')
        IN /\ (state = 0 /\ err = "nil") =>
                  /\ (state' = 1) = (k = cfgUp)
                  /\ k <= cfgUp
           /\ (state = 0 /\ err # "nil") => state' = 0
           /\ (state = 1 /\ err # "nil") =>
                  /\ (state' = 0) = (k = cfgDown)
                  /\ k <= cfgDown
           /\ (state = 1 /\ err = "nil") => state' = 1]_vars

\* an observation that was not a fast-start one turned the state up on the
\* second success in a row, after a failure had restarted the count
C12_Witness ==
    /\ obsPc = "locked"
    /\ lastObs.valid /\ ~lastObs.fast /\ ~lastObs.wasUp
    /\ cfgUp = 2
    /\ state = 1
    /\ Len(hist) = 3 /\ hist[1] # "nil"


\* C13: fast-start. With FastStart set, when the first observation after
\* construction or after a Reset has been counted, the state is that
\* observation's outcome: up on success, down on failure, whatever the state
\* and the thresholds were.
C13_FastStart ==
    (FastStart /\ obsPc = "locked" /\ Len(hist) = 1) =>
        state = (IF hist[1] = "nil" THEN 1 ELSE 0)

\* the first observation after Reset(true) failed and turned the state down
\* although two failures are asked for
C13_Witness ==
    /\ FastStart /\ obsPc = "locked" /\ Len(hist) = 1
    /\ nResets = 1 /\ resetTo = TRUE
    /\ thresholdDown = 2
    /\ hist[1] # "nil"
    /\ state = 0


\* n observations have returned and no other is in progress
Settled(n) == obsPc = "idle" /\ nObs = n /\ obsDone = n

\* C14 as stated: in the scenario (up 3, down 5, initially down, no
\* fast-start) the state is down after 1 and 2 successes, up after the 3rd
\* with OnUp(3, 0), up after each of the next 4 failures, and down after the
\* 5th with OnDown(0, 5, that failure's error), which LastErr returns.
C14_Original ==
    /\ (Settled(1) \/ Settled(2)) => state = 0
    /\ (\E n \in 3..7 : Settled(n)) =>
           /\ state = 1
           /\ lastCb.kind = "up" /\ lastCb.ups = 3 /\ lastCb.downs = 0
    /\ Settled(8) =>
           /\ state = 0
           /\ lastCb.kind = "down" /\ lastCb.ups = 0 /\ lastCb.downs = 5
           /\ lastCb.err = hist[8]
           /\ lastErr = hist[8]
    /\ rd.got = rd.due

\* C14, amended: the same scenario, but OnDown is called with (3, 5): the
\* success counter still holds the 3 successes counted before the failures
\* and is cleared only after the callback's arguments have been taken.
C14_Scenario ==
    /\ (Settled(1) \/ Settled(2)) => state = 0
    /\ (\E n \in 3..7 : Settled(n)) =>
           /\ state = 1
           /\ lastCb.kind = "up" /\ lastCb.ups = 3 /\ lastCb.downs = 0
    /\ Settled(8) =>
           /\ state = 0
           /\ lastCb.kind = "down" /\ lastCb.ups = 3 /\ lastCb.downs = 5
           /\ lastCb.err = hist[8]
           /\ lastErr = hist[8]
           /\ ups = 0
    /\ rd.got = rd.due

\* the scenario has been run to its end, the fifth failure's error differs
\* from the four before it, and LastErr has returned it
C14_Witness ==
    /\ Settled(8)
    /\ thresholdUp = 3 /\ thresholdDown = 5
    /\ \A i \in 4..7 : hist[i] = "e1"
    /\ hist[8] = "e2"
    /\ lastCb.kind = "down"
    /\ rd.got = "e2"


\* the callback cb was deferred by an observation whose transition the
\* threshold decided
ByThreshold(cb) == cb.by = "obs" /\ ~cb.fast

\* C15: a callback for a transition that the threshold decided (not a
\* fast-start observation, not a Reset) gets numUps = the up-threshold when it
\* is OnUp and numDowns = the down-threshold when it is OnDown, whether it is
\* still deferred or has run.
C15_CallbackCounts ==
    \A cb \in {pendObs, lastCb} :
        ByThreshold(cb) =>
            /\ cb.kind = "up" => cb.ups = thresholdUp
            /\ cb.kind = "down" => cb.downs = thresholdDown

\* OnDown has run for the second failure in a row, which came after a success
C15_Witness ==
    /\ ByThreshold(lastCb)
    /\ lastCb.kind = "down"
    /\ lastCb.downs = 2
    /\ Len(hist) = 3 /\ hist[1] = "nil"


\* C16: what LastErr returned is the error of the latest failing observation
\* since the last Reset (since construction when there was none), and no error
\* when no observation has failed since then.
C16_LastErrSinceReset == rd.got = rd.due

\* C16, as long as Reset has not been called: LastErr returns the error of
\* the latest failing observation, and no error when none has failed.
C16_LastErrNoReset == nResets = 0 => rd.got = rd.due


\* C17: a goroutine that is about to call OnUp / OnDown, from an observation
\* or from Reset, does not hold the health checker's lock.
C17_CallbacksOutsideLock ==
    /\ obsPc = "cb" => mu # "obs"
    /\ (apiPc = "defers" /\ pendApi.kind # "none") => mu # "api"

\* C17, for observations only: IntervalRun has unlocked before its deferred
\* callback runs.
C17_ObsCallbackOutsideLock == obsPc = "cb" => mu # "obs"

\* C17's consequence in Reset: a callback that calls LastErr is never run by
\* Reset, which then keeps the lock for good.
C17_ResetCallbackStuck ==
    (cbMode = "reads" /\ apiPc = "defers") => (pendApi.kind # "none" /\ mu = "api" /\ ~ENABLED ResetCallback)


\* the state that Reset(b) stores
StateOf(b) == IF b = TRUE THEN 1 ELSE 0

\* exactly one callback, of the kind that announces Reset(b)
OneCallback(b) == IF b = TRUE THEN [up |-> 1, down |-> 0] ELSE [up |-> 0, down |-> 1]

\* C18: from the step in which Reset(newState) takes the lock until the next
\* observation is counted, the state is newState, both counters are zero and
\* the first-run flag is set; when Reset has returned and callbacks are set it
\* has called exactly one of them, OnUp for up and OnDown for down; and the
\* next observation counted is treated as a first observation.
C18_Reset ==
    /\ (nResets > 0 /\ hist = <<>>) =>
           /\ state = StateOf(resetTo)
           /\ ups = 0 /\ downs = 0
           /\ firstRun
    /\ apiPc = "defers" => mu = "api"
    /\ (nResets > 0 /\ apiPc = "idle" /\ cbMode # "none") =>
           cbsReset = OneCallback(resetTo)
    /\ (nResets > 0 /\ obsPc = "locked" /\ Len(hist) = 1) =>
           lastObs.fast = FastStart

\* Reset(true) was called on a health check that was already up, it has
\* called OnUp once, and the observation after it was a fast-start one that
\* turned the state down
C18_Witness ==
    /\ nResets = 1 /\ resetTo = TRUE /\ apiPc = "idle"
    /\ cbsReset = [up |-> 1, down |-> 0]
    /\ lastCb.by = "reset" /\ lastCb.ups = 2
    /\ obsPc = "locked" /\ Len(hist) = 1
    /\ lastObs.fast /\ lastObs.wasUp
    /\ state = 0


\* C19: an observation calls the wrapped runner once (the runner has been
\* called once per observation returned, and once more while one is in
\* progress), and an observation that has returned has returned what that
\* call produced, so that the scheduler picks the same next wait from it as
\* from the runner's own outcome.
C19_SameOutcome ==
    /\ nObs = obsDone + (IF obsPc = "idle" THEN 0 ELSE 1)
    /\ (obsPc = "idle" /\ obsDone > 0) =>
           /\ ret = ran
           /\ \A cur \in 0..MaxInterval :
                  NextInterval(ret # "nil", cur) = NextInterval(ran # "nil", cur)

\* a success after a failure has turned the state up, OnUp has run, and the
\* observation has returned nil while the last error is still recorded
C19_Witness ==
    /\ obsPc = "idle" /\ obsDone = 2
    /\ ran = "nil" /\ ret = "nil"
    /\ lastErr = "e1"
    /\ lastCb.by = "obs" /\ lastCb.kind = "up"
    /\ state = 1


\* C20: a threshold configured below 1 is stored as 1 and acts as 1: with
\* fast-start not applying, an observation that succeeds while the state is
\* down turns it up when the up-threshold was given below 1, and one that
\* fails while the state is up turns it down when the down-threshold was.
C20_ThresholdClamped ==
    /\ cfgUp < 1 => thresholdUp = 1
    /\ cfgDown < 1 => thresholdDown = 1
    /\ (obsPc = "locked" /\ lastObs.valid /\ ~lastObs.fast) =>
           /\ (cfgUp < 1 /\ ~lastObs.wasUp /\ lastObs.ok) => state = 1
           /\ (cfgDown < 1 /\ lastObs.wasUp /\ ~lastObs.ok) => state = 0

\* with a down-threshold of -1, a single failure that was not a fast-start
\* observation has turned the state down
C20_Witness ==
    /\ cfgDown = -1
    /\ obsPc = "locked" /\ lastObs.valid /\ ~lastObs.fast
    /\ lastObs.wasUp /\ ~lastObs.ok
    /\ state = 0
    /\ downs = 1


\* C21: counter reset law. After an observation that matched the state held
\* before it, the counter of the other direction is zero (failures after a
\* success while up, successes after a failure while down); after an
\* observation that changed the state, the counter opposite to the new state is
\* zero (successes once down, failures once up). This stays so until the next
\* observation is counted.
C21_CounterReset ==
    lastObs.valid =>
        /\ (lastObs.wasUp /\ lastObs.ok) => downs = 0
        /\ (~lastObs.wasUp /\ ~lastObs.ok) => ups = 0
        /\ (lastObs.wasUp /\ state = 0) => ups = 0
        /\ (~lastObs.wasUp /\ state = 1) => downs = 0

\* a success, then two failures in a row while up: the second reached the
\* down-threshold, and the transition cleared the success counter
C21_Witness ==
    /\ lastObs.valid /\ ~lastObs.fast
    /\ lastObs.wasUp /\ state = 0
    /\ Len(hist) = 3 /\ hist[1] = "nil" /\ hist[2] # "nil"
    /\ thresholdDown = 2
    /\ ups = 0 /\ downs = 2


\* C22: a reader never sees a partial update. Once its IsUp has returned the
\* down state that a failing observation's transition produced, its next
\* LastErr returns the error of that observation or of a later failing one,
\* never a value recorded before.
C22_NoPartialRead == rdAge # "old"

\* two failures in a row turned the state down, the reader's IsUp returned
\* that state and its LastErr then returned the second failure's error, not
\* the first's
C22_Witness ==
    /\ rdAge = "fresh"
    /\ hist = <<"e1", "e2">>
    /\ sinceSeen = {"e2"}
    /\ rd.got = "e2"
    /\ state = 0


\* C23: whenever an observation has been counted or a Reset has stored its
\* state, an up state has a failure counter strictly below the down-threshold
\* and a down state has a success counter strictly below the up-threshold.
C23_CountersBelowThreshold ==
    /\ state = 1 => downs < thresholdDown
    /\ state = 0 => ups < thresholdUp

\* an observation that failed while up has returned with the failure counter
\* one short of the down-threshold, the state still up
C23_Witness ==
    /\ obsPc = "idle" /\ obsDone = 2
    /\ lastObs.valid /\ lastObs.wasUp /\ ~lastObs.ok
    /\ state = 1
    /\ downs = 1 /\ thresholdDown = 2


\* the state is not the one held before the last observation
Changed == lastObs.wasUp # (state = 1)

\* C24: with callbacks set and no Reset, an observation that has returned has
\* called a callback if and only if it changed what IsUp returns, exactly one,
\* OnUp when the state went up and OnDown when it went down; and each callback
\* run is of the other kind than the one run before it.
C24_CallbackIffChange ==
    /\ []((nResets = 0 /\ cbMode # "none" /\ lastObs.valid /\ obsPc \in {"idle", "ran"}) =>
             cbsObs = (IF Changed THEN OneCallback(state = 1) ELSE NoCbs))
    /\ [][(nResets = 0 /\ obsPc = "cb" /\ obsPc' = "idle") =>
             /\ lastCb'.kind = (IF state = 1 THEN "up" ELSE "down")
             /\ lastCb'.kind # lastCb.kind]_vars

\* down, up and down again in three observations, each with its callback, the
\* last one OnDown
C24_Witness ==
    /\ nResets = 0 /\ cbMode # "none"
    /\ obsPc = "idle" /\ obsDone = 3
    /\ hist = <<"e1", "nil", "e2">>
    /\ cbsObs = [up |-> 0, down |-> 1]
    /\ lastCb.kind = "down" /\ lastCb.err = "e2"
    /\ state = 0

TypeOK ==
    /\ runInterval \in 0..MaxInterval
    /\ retryInterval \in 0..MaxInterval
    /\ currentInterval \in 0..MaxInterval
    /\ force \in 0..ForceCap
    /\ pc \in [Loops -> {"none", "send", "select", "chkTimer", "chkForce", "inF", "exited", "crashed"}]
    /\ calls \in 0..MaxCalls
    /\ triggers \in 0..MaxTriggers
====
